---- MODULE Spec2Model ----
(***************************************************************************)
(* pgn2gif: PgnToGifCreator (rendering of a chess game's snapshots into    *)
(* the frame sequence of an animated GIF) and the batch command line.      *)
(*                                                                         *)
(* An image is a record [cells, arrows]: cells maps each of the 64 grid    *)
(* origins (multiples of SQ_SIZE) to what was last pasted there, arrows is *)
(* the sequence of arrows drawn on the image.                              *)
(***************************************************************************)
EXTENDS Integers, Sequences, FiniteSets, TLC

VARIABLES
    reverse,          \* self._reverse
    ws_color,         \* self._ws_color
    bs_color,         \* self._bs_color
    arrow,            \* self._arrow
    should_redraw,    \* self._should_redraw
    pieces,           \* self._pieces (the loaded sprite names)
    ws,               \* self._ws tile image (its colour), NoTile before _draw_board
    bs,               \* self._bs tile image
    initial_board,    \* self._initial_board, NoImage before _draw_board
    keys,             \* iteration order of the snapshot's keys
    pc,               \* position of create_gif: idle, loop, done, failed
    pgn,              \* create_gif's pgn argument
    out_path,         \* create_gif's out_path argument
    board_image,      \* create_gif's live canvas
    frames,           \* create_gif's frame list
    game,             \* the ChessGame: [state, is_finished, left (plies not yet played)]
    changed_squares,  \* changed_squares of the last ply
    plies,            \* successful game.next() calls of this render
    error,            \* the exception that ended the render, NoError otherwise
    thrown,           \* the exception the snapshot source raised, NoError otherwise
    fs,               \* the files written: output path -> pgn whose animation it holds
    renders,          \* create_gif calls begun so far
    history,          \* the configurations the last two create_gif calls started under
    args_path,        \* main: args.path
    args_out,         \* main: args.out
    main_i            \* main: inputs already handed to create_gif

vars == <<reverse, ws_color, bs_color, arrow, should_redraw, pieces, ws, bs,
          initial_board, keys, pc, pgn, out_path, board_image, frames, game,
          changed_squares, plies, error, thrown, fs, renders, history,
          args_path, args_out, main_i>>

-----------------------------------------------------------------------------
(* Bounds *)

\* plies of the longest game of a single render
MaxPlies == 2
\* plies of the longest game where several renders follow one another
MaxPliesMulti == 1
\* create_gif calls on one instance
MaxRenders == 2
\* input paths of a batch run
MaxInputs == 2

-----------------------------------------------------------------------------
(* Squares, pieces, snapshots (the chess collaborator's data) *)

Files == <<"a", "b", "c", "d", "e", "f", "g", "h">>
Ranks == <<"1", "2", "3", "4", "5", "6", "7", "8">>

\* ord() of a file letter
OrdTable ==
    ("a" :> 97) @@ ("b" :> 98) @@ ("c" :> 99) @@ ("d" :> 100) @@
    ("e" :> 101) @@ ("f" :> 102) @@ ("g" :> 103) @@ ("h" :> 104)
Ord(ch) == OrdTable[ch]

\* int() of a rank digit
IntTable ==
    ("1" :> 1) @@ ("2" :> 2) @@ ("3" :> 3) @@ ("4" :> 4) @@
    ("5" :> 5) @@ ("6" :> 6) @@ ("7" :> 7) @@ ("8" :> 8)
IntOf(d) == IntTable[d]

Squares == {<<Files[i], Ranks[j]>> : i \in 1..8, j \in 1..8}

Empty == ""

WhiteBack == <<"wr", "wn", "wb", "wq", "wk", "wb", "wn", "wr">>
BlackBack == <<"br", "bn", "bb", "bq", "bk", "bb", "bn", "br">>

INITIAL_STATE ==
    [sq \in Squares |->
        LET c == Ord(sq[1]) - 96
        IN CASE sq[2] = "1" -> WhiteBack[c]
             [] sq[2] = "2" -> "wp"
             [] sq[2] = "7" -> "bp"
             [] sq[2] = "8" -> BlackBack[c]
             [] OTHER -> Empty]

AllPieces == {INITIAL_STATE[sq] : sq \in Squares} \ {Empty}

\* key orders of the snapshot dictionary: rank 1 first, or rank 8 first
KeysAscending ==
    [i \in 1..64 |-> <<Files[((i - 1) % 8) + 1], Ranks[((i - 1) \div 8) + 1]>>]
KeysDescending ==
    [i \in 1..64 |-> <<Files[((i - 1) % 8) + 1], Ranks[8 - ((i - 1) \div 8)]>>]
KeyOrders == {KeysAscending, KeysDescending}

\* the squares a ply of the bounded games may touch
ActiveSquares == {<<"d", "7">>, <<"e", "4">>}
PlyPieces == {Empty, "wp"}

\* the snapshots game.next() may move to from state
NextStates(state) ==
    {[sq \in Squares |-> IF sq \in ActiveSquares THEN f[sq] ELSE state[sq]] :
        f \in [ActiveSquares -> PlyPieces]}

SourceErrors == {"IllegalMoveError", "ParseError"}
NoError == "NoError"

-----------------------------------------------------------------------------
(* Paths *)

MkPath(dir, name, ext) == [dir |-> dir, name |-> name, ext |-> ext]
NoPath == MkPath("", "", "")

\* Path(p).stem
Stem(p) == p.name

\* one output name for every input
GifName_Fixed(p) == MkPath("", "out", "gif")

\* Path(pgn).stem + '.gif'
GifName(p) == MkPath("", Stem(p), "gif")

\* Path(dir) / f
PathJoin(dir, f) == [f EXCEPT !.dir = dir]

Paths == {MkPath("a", "game", "pgn"), MkPath("b", "game", "pgn"),
          MkPath("a", "other", "pgn")}
ApiPgns == {MkPath("a", "game", "pgn")}
ApiOutPaths == {NoPath, MkPath("o", "x", "gif")}

WsColors == {"#f0d9b5", "white"}
BsColors == {"#b58863", "gray"}

-----------------------------------------------------------------------------
(* Images *)

BOARD_SIZE == 480
SQ_SIZE == BOARD_SIZE \div 8

Grid == {i * SQ_SIZE : i \in 0..7}
Origins == Grid \X Grid

NoImage == [cells |-> <<>>, arrows |-> <<>>]
NoTile == [tile |-> "none", color |-> "none"]
BlankCell == [tile |-> "none", color |-> "transparent", piece |-> Empty]

\* Image.new('RGBA', (BOARD_SIZE, BOARD_SIZE))
NewBoard == [cells |-> [o \in Origins |-> BlankCell], arrows |-> <<>>]

\* Image.new('RGBA', (SQ_SIZE, SQ_SIZE), color)
NewTile(name, color) == [tile |-> name, color |-> color]

\* reversal mirrors the files only
coordinates_mirror_files_only(square, rev) ==
    LET c == Ord(square[1]) - 97
        r == IntOf(square[2]) - 1
    IN IF rev THEN <<(7 - c) * SQ_SIZE, (7 - r) * SQ_SIZE>>
              ELSE <<c * SQ_SIZE, (7 - r) * SQ_SIZE>>

coordinates_of_square(square, rev) ==
    LET c == Ord(square[1]) - 97
        r == IntOf(square[2]) - 1
    IN IF rev THEN <<(7 - c) * SQ_SIZE, r * SQ_SIZE>>
              ELSE <<c * SQ_SIZE, (7 - r) * SQ_SIZE>>

\* the two tiles exchanged
TileAt_Exchanged(crd, wsT, bsT) ==
    IF (crd[1] + crd[2]) % (SQ_SIZE * 2) = 0 THEN bsT ELSE wsT

\* the tile _update_board_image pastes at crd
TileAt(crd, wsT, bsT) ==
    IF (crd[1] + crd[2]) % (SQ_SIZE * 2) = 0 THEN wsT ELSE bsT

\* what one iteration of _update_board_image's loop leaves at crd: the tile,
\* then the piece's sprite over it
PaintedCell(game_state, square, crd, wsT, bsT) ==
    LET t == TileAt(crd, wsT, bsT)
    IN [tile |-> t.tile, color |-> t.color, piece |-> game_state[square]]

\* what iterations lo..hi of _update_board_image's loop paste, as a map from
\* origin to cell; a later iteration overrides an earlier one at the same origin
RECURSIVE Pastes(_, _, _, _, _, _, _)
Pastes(game_state, changed, lo, hi, rev, wsT, bsT) ==
    IF lo = hi
    THEN LET crd == coordinates_of_square(changed[lo], rev)
         IN crd :> PaintedCell(game_state, changed[lo], crd, wsT, bsT)
    ELSE LET mid == (lo + hi) \div 2
         IN Pastes(game_state, changed, mid + 1, hi, rev, wsT, bsT)
                @@ Pastes(game_state, changed, lo, mid, rev, wsT, bsT)

\* the loop of _update_board_image over changed: the origins it pastes at get
\* their new content, the others keep theirs
update_board_image(image, game_state, changed, rev, wsT, bsT) ==
    IF changed = <<>> THEN image
    ELSE [image EXCEPT !.cells =
            Pastes(game_state, changed, 1, Len(changed), rev, wsT, bsT) @@ @]

\* only the squares that are occupied now
ChangedSquares_OccupiedOnly(ks, state, previous) ==
    SelectSeq(ks, LAMBDA s : state[s] # previous[s] /\ state[s] # Empty)

\* [s for s in game.state.keys() if game.state[s] != previous[s]]
ChangedSquares(ks, state, previous) ==
    SelectSeq(ks, LAMBDA s : state[s] # previous[s])

\* the two ends exchanged
ArrowArgs_Exchanged(changed, state, rev) ==
    LET empty == IF state[changed[2]] # Empty THEN 1 ELSE 0
        fr == coordinates_of_square(changed[empty + 1], rev)
        to == coordinates_of_square(changed[(1 - empty) + 1], rev)
        off == SQ_SIZE \div 2
    IN <<fr[1] + off, fr[2] + off, to[1] + off, to[2] + off>>

\* the arguments create_gif passes to _draw_arrow: <<x0, y0, x1, y1>>
ArrowArgs(changed, state, rev) ==
    LET empty == IF state[changed[2]] # Empty THEN 1 ELSE 0
        fr == coordinates_of_square(changed[empty + 1], rev)
        to == coordinates_of_square(changed[(1 - empty) + 1], rev)
        off == SQ_SIZE \div 2
    IN <<to[1] + off, to[2] + off, fr[1] + off, fr[2] + off>>

\* _draw_arrow: the shaft runs from (x0, y0) to (x1, y1), the head's apex is (x1, y1)
draw_arrow(image, a) ==
    [image EXCEPT !.arrows = Append(@, [tail |-> <<a[1], a[2]>>, head |-> <<a[3], a[4]>>])]

-----------------------------------------------------------------------------
(* PgnToGifCreator *)

Config == [reverse |-> reverse, ws_color |-> ws_color, bs_color |-> bs_color]

\* ChessGame(pgn) for a game of n plies
ChessGame(n) == [state |-> INITIAL_STATE, is_finished |-> (n = 0), left |-> n]

NoGame == ChessGame(0)

\* __init__(reverse, duration, ws_color, bs_color, arrow)
Construct(r, w, b, a) ==
    /\ reverse = r
    /\ ws_color = w
    /\ bs_color = b
    /\ arrow = a
    /\ pieces = {}
    /\ should_redraw = TRUE
    /\ ws = NoTile
    /\ bs = NoTile
    /\ initial_board = NoImage

\* no create_gif call is running
Idle ==
    /\ pc = "idle"
    /\ pgn = NoPath
    /\ out_path = NoPath
    /\ board_image = NoImage
    /\ frames = <<>>
    /\ game = NoGame
    /\ changed_squares = <<>>
    /\ plies = 0
    /\ error = NoError
    /\ thrown = NoError

SetReverse ==
    /\ pc = "idle"
    /\ \E r \in BOOLEAN : reverse' = r
    /\ should_redraw' = TRUE
    /\ UNCHANGED <<ws_color, bs_color, arrow, pieces, ws, bs, initial_board, keys,
                   pc, pgn, out_path, board_image, frames, game, changed_squares,
                   plies, error, thrown, fs, renders, history, args_path, args_out,
                   main_i>>

\* the setter forgets the redraw flag
SetWsColor_NoFlag ==
    /\ pc = "idle"
    /\ \E c \in WsColors : ws_color' = c
    /\ UNCHANGED <<reverse, bs_color, arrow, should_redraw, pieces, ws, bs, initial_board,
                   keys, pc, pgn, out_path, board_image, frames, game, changed_squares,
                   plies, error, thrown, fs, renders, history, args_path, args_out,
                   main_i>>

SetWsColor ==
    /\ pc = "idle"
    /\ \E c \in WsColors : ws_color' = c
    /\ should_redraw' = TRUE
    /\ UNCHANGED <<reverse, bs_color, arrow, pieces, ws, bs, initial_board, keys,
                   pc, pgn, out_path, board_image, frames, game, changed_squares,
                   plies, error, thrown, fs, renders, history, args_path, args_out,
                   main_i>>

SetBsColor ==
    /\ pc = "idle"
    /\ \E c \in BsColors : bs_color' = c
    /\ should_redraw' = TRUE
    /\ UNCHANGED <<reverse, ws_color, arrow, pieces, ws, bs, initial_board, keys,
                   pc, pgn, out_path, board_image, frames, game, changed_squares,
                   plies, error, thrown, fs, renders, history, args_path, args_out,
                   main_i>>

\* the canvas _draw_board builds
DrawnBoard(ks, rev, wsT, bsT) ==
    update_board_image(NewBoard, INITIAL_STATE, ks, rev, wsT, bsT)

draw_board ==
    /\ pieces' = IF pieces = {} THEN AllPieces ELSE pieces
    /\ ws' = NewTile("ws", ws_color)
    /\ bs' = NewTile("bs", bs_color)
    /\ initial_board' = DrawnBoard(keys, reverse, ws', bs')
    /\ should_redraw' = FALSE

\* create_gif up to the loop: redraw if stale, first frame, open the game
CreateGifBegin(p, o, longest) ==
    /\ pc = "idle"
    /\ IF should_redraw
       THEN draw_board
       ELSE UNCHANGED <<pieces, ws, bs, initial_board, should_redraw>>
    /\ board_image' = initial_board'
    /\ frames' = <<board_image'>>
    /\ \E n \in 0..longest : game' = ChessGame(n)
    /\ pgn' = p
    /\ out_path' = o
    /\ plies' = 0
    /\ changed_squares' = <<>>
    /\ error' = NoError
    /\ thrown' = NoError
    /\ pc' = "loop"
    /\ renders' = renders + 1
    /\ history' = IF Len(history) < 2 THEN Append(history, Config)
                                     ELSE <<history[2], Config>>
    /\ UNCHANGED <<reverse, ws_color, bs_color, arrow, keys, fs>>

\* one iteration of the loop in which game.next() succeeds
PlyAdvance ==
    /\ pc = "loop"
    /\ ~game.is_finished
    /\ \E state \in NextStates(game.state) :
           LET previous == game.state
               changed == ChangedSquares(keys, state, previous)
               painted == update_board_image(board_image, state, changed, reverse, ws, bs)
               copy == painted
           IN /\ game' = [state |-> state, is_finished |-> (game.left = 1),
                           left |-> game.left - 1]
              /\ changed_squares' = changed
              /\ board_image' = painted
              /\ plies' = plies + 1
              /\ IF arrow /\ Len(changed) > 0
                 THEN IF Len(changed) < 2
                      THEN /\ frames' = frames
                           /\ error' = "IndexError"
                           /\ pc' = "failed"
                      ELSE /\ frames' = Append(frames,
                                           draw_arrow(copy, ArrowArgs(changed, state, reverse)))
                           /\ error' = error
                           /\ pc' = pc
                 ELSE /\ frames' = Append(frames, copy)
                      /\ error' = error
                      /\ pc' = pc
    /\ UNCHANGED <<reverse, ws_color, bs_color, arrow, should_redraw, pieces, ws, bs,
                   initial_board, keys, pgn, out_path, thrown, fs, renders, history,
                   args_path, args_out, main_i>>

\* the partial animation is saved before the error leaves create_gif
PlyAdvanceFails_SavesPartial ==
    /\ pc = "loop"
    /\ ~game.is_finished
    /\ \E e \in SourceErrors :
        /\ thrown' = e
        /\ error' = e
    /\ pc' = "failed"
    /\ fs' = (GifName(pgn) :> pgn) @@ fs
    /\ UNCHANGED <<reverse, ws_color, bs_color, arrow, should_redraw, pieces, ws, bs,
                   initial_board, keys, pgn, out_path, board_image, frames, game,
                   changed_squares, plies, renders, history, args_path, args_out,
                   main_i>>

\* one iteration of the loop in which game.next() raises
PlyAdvanceFails ==
    /\ pc = "loop"
    /\ ~game.is_finished
    /\ \E e \in SourceErrors :
        /\ thrown' = e
        /\ error' = e
    /\ pc' = "failed"
    /\ UNCHANGED <<reverse, ws_color, bs_color, arrow, should_redraw, pieces, ws, bs,
                   initial_board, keys, pgn, out_path, board_image, frames, game,
                   changed_squares, plies, fs, renders, history, args_path, args_out,
                   main_i>>

\* the path frames[0].save writes to
SavePath(p, o) == IF o = NoPath THEN GifName(p) ELSE o

\* the last frame is held twice
CreateGifFinish_HoldsTwo ==
    /\ pc = "loop"
    /\ game.is_finished
    /\ LET last == frames[Len(frames)]
       IN frames' = frames \o <<last, last>>
    /\ fs' = (SavePath(pgn, out_path) :> pgn) @@ fs
    /\ pc' = "done"
    /\ UNCHANGED <<reverse, ws_color, bs_color, arrow, should_redraw, pieces, ws, bs,
                   initial_board, keys, pgn, out_path, board_image, game,
                   changed_squares, plies, error, thrown, renders, history,
                   args_path, args_out, main_i>>

\* after the loop: hold the last frame, save
CreateGifFinish ==
    /\ pc = "loop"
    /\ game.is_finished
    /\ LET last == frames[Len(frames)]
       IN frames' = frames \o <<last, last, last>>
    /\ fs' = (SavePath(pgn, out_path) :> pgn) @@ fs
    /\ pc' = "done"
    /\ UNCHANGED <<reverse, ws_color, bs_color, arrow, should_redraw, pieces, ws, bs,
                   initial_board, keys, pgn, out_path, board_image, game,
                   changed_squares, plies, error, thrown, renders, history,
                   args_path, args_out, main_i>>

\* create_gif's locals are gone
DropLocals ==
    /\ pc' = "idle"
    /\ pgn' = NoPath
    /\ out_path' = NoPath
    /\ board_image' = NoImage
    /\ frames' = <<>>
    /\ game' = NoGame
    /\ changed_squares' = <<>>
    /\ plies' = 0
    /\ error' = NoError
    /\ thrown' = NoError
    /\ UNCHANGED <<reverse, ws_color, bs_color, arrow, should_redraw, pieces, ws, bs,
                   initial_board, keys, fs, renders, history, args_path, args_out,
                   main_i>>

-----------------------------------------------------------------------------
(* One create_gif call on a new PgnToGifCreator *)

NewCreator ==
    /\ \E r \in BOOLEAN, w \in WsColors, b \in BsColors, a \in BOOLEAN :
        Construct(r, w, b, a)
    /\ Idle
    /\ fs = <<>>
    /\ renders = 0
    /\ history = <<>>

Init ==
    /\ NewCreator
    /\ keys \in KeyOrders
    /\ args_path = <<>>
    /\ args_out = ""
    /\ main_i = 0

CallCreateGif ==
    /\ renders = 0
    /\ \E p \in ApiPgns, o \in ApiOutPaths : CreateGifBegin(p, o, MaxPlies)
    /\ UNCHANGED <<args_path, args_out, main_i>>

Next ==
    \/ CallCreateGif
    \/ PlyAdvance
    \/ PlyAdvanceFails
    \/ CreateGifFinish

Spec == Init /\ [][Next]_vars

-----------------------------------------------------------------------------
(* A caller that keeps one PgnToGifCreator, sets its properties and calls
   create_gif several times *)

ApiCreateGif ==
    /\ renders < MaxRenders
    /\ \E p \in ApiPgns : CreateGifBegin(p, NoPath, MaxPliesMulti)
    /\ UNCHANGED <<args_path, args_out, main_i>>

\* create_gif returned, or raised and the caller caught it
ApiReturn ==
    /\ pc \in {"done", "failed"}
    /\ DropLocals

ApiInit ==
    /\ NewCreator
    /\ keys = KeysAscending
    /\ args_path = <<>>
    /\ args_out = ""
    /\ main_i = 0

ApiNext ==
    \/ SetReverse
    \/ SetWsColor
    \/ SetBsColor
    \/ ApiCreateGif
    \/ PlyAdvance
    \/ PlyAdvanceFails
    \/ CreateGifFinish
    \/ ApiReturn

SpecApi == ApiInit /\ [][ApiNext]_vars

-----------------------------------------------------------------------------
(* main *)

InputLists == UNION {[1..n -> Paths] : n \in 1..MaxInputs}

\* parse_args and the PgnToGifCreator main builds from it
MainInit ==
    /\ \E r \in BOOLEAN, a \in BOOLEAN : Construct(r, "#f0d9b5", "#b58863", a)
    /\ Idle
    /\ fs = <<>>
    /\ renders = 0
    /\ history = <<>>
    /\ keys = KeysAscending
    /\ args_path \in InputLists
    /\ args_out = "out"
    /\ main_i = 0

\* the body of main's for loop, up to the loop of create_gif
MainCreateGif ==
    /\ main_i < Len(args_path)
    /\ LET p == args_path[main_i + 1]
           f == GifName(p)
       IN CreateGifBegin(p, PathJoin(args_out, f), MaxPliesMulti)
    /\ main_i' = main_i + 1
    /\ UNCHANGED <<args_path, args_out>>

\* create_gif returned to main's loop
MainReturn ==
    /\ pc = "done"
    /\ DropLocals

MainNext ==
    \/ MainCreateGif
    \/ PlyAdvance
    \/ PlyAdvanceFails
    \/ CreateGifFinish
    \/ MainReturn

SpecMain == MainInit /\ [][MainNext]_vars

-----------------------------------------------------------------------------
(* Properties *)

InRender == pc \in {"loop", "done", "failed"}

\* the frame of the last ply (held at the end of frames once the render is done)
LastFrame == frames[Len(frames)]

\* 0-based file and rank index of a square
FileIndex(sq) == Ord(sq[1]) - Ord("a")
RankIndex(sq) == IntOf(sq[2]) - 1

\* pixel centre of a square under the current reversal
Centre(sq) ==
    LET o == coordinates_of_square(sq, reverse)
    IN <<o[1] + SQ_SIZE \div 2, o[2] + SQ_SIZE \div 2>>

\* all 64 squares of snapshot state painted on a fresh canvas
FullRepaint(state, rev, wc, bc) ==
    update_board_image(NewBoard, state, keys, rev, NewTile("ws", wc), NewTile("bs", bc))

\* C1: a render of a game of N plies whose source raised nothing ends by handing
\* the encoder N+4 frames: the initial frame, one frame per ply, and three more
\* entries equal to the last of those.
C1_FrameSequence ==
    (pc \in {"done", "failed"} /\ thrown = NoError) =>
        /\ pc = "done"
        /\ Len(frames) = plies + 4
        /\ frames[1] = initial_board
        /\ \A i \in 1..3 : frames[plies + 1 + i] = frames[plies + 1]

\* C2: the first frame of every render is the starting position painted with the
\* reverse, ws_color and bs_color in effect when the render starts.
C2_FirstFrameFresh ==
    InRender => frames[1] = FullRepaint(INITIAL_STATE, reverse, ws_color, bs_color)

C2_Witness ==
    /\ pc = "loop"
    /\ Len(history) = 2
    /\ history[1].reverse # history[2].reverse
    /\ history[1].ws_color # history[2].ws_color
    /\ history[1].bs_color # history[2].bs_color
    /\ history[2] = Config
    /\ frames[1] = FullRepaint(INITIAL_STATE, reverse, ws_color, bs_color)

\* the arrow of the last ply runs from the centre of t to the centre of h
ArrowIs(t, h) == LastFrame.arrows = <<[tail |-> Centre(t), head |-> Centre(h)]>>

ArrowPly ==
    /\ arrow
    /\ pc \in {"loop", "done"}
    /\ plies >= 1
    /\ Len(changed_squares) >= 2

\* C3 as claimed: with the arrow overlay on, on every ply with at least two
\* changed squares the arrow's head is at the centre of an occupied square and
\* its tail at the centre of an empty square, both among the first two entries.
C3_HeadOccupiedTailEmpty ==
    ArrowPly =>
        \E h \in {changed_squares[1], changed_squares[2]} :
        \E t \in {changed_squares[1], changed_squares[2]} :
            /\ h # t
            /\ game.state[h] # Empty
            /\ game.state[t] = Empty
            /\ ArrowIs(t, h)

\* C3 amended: when exactly one of the first two entries is occupied, the head
\* is at the occupied one and the tail at the empty one, in either order; when
\* both are occupied the head is at the second entry, when both are empty the
\* head is at the first entry.
C3_ArrowHeuristic ==
    ArrowPly =>
        LET s1 == changed_squares[1]
            s2 == changed_squares[2]
        IN CASE game.state[s1] # Empty /\ game.state[s2] = Empty -> ArrowIs(s2, s1)
             [] game.state[s1] = Empty /\ game.state[s2] # Empty -> ArrowIs(s1, s2)
             [] game.state[s1] # Empty /\ game.state[s2] # Empty -> ArrowIs(s1, s2)
             [] OTHER -> ArrowIs(s2, s1)

C3_Witness ==
    /\ ArrowPly
    /\ game.state[changed_squares[1]] # Empty
    /\ game.state[changed_squares[2]] = Empty
    /\ ArrowIs(changed_squares[2], changed_squares[1])

\* C4 as claimed: a render whose source is finished before the first ply fails
\* with EmptyFrameSequence and writes no image.
C4_EmptyGameFails ==
    (InRender /\ plies = 0 /\ game.is_finished) =>
        /\ pc # "done"
        /\ (pc = "failed" => error = "EmptyFrameSequence")
        /\ SavePath(pgn, out_path) \notin DOMAIN fs

\* C4 amended: a render whose source is finished before the first ply does not
\* fail; it ends with four frames, each the initial-position frame, and with the
\* image written.
C4_EmptyGameHeld ==
    (InRender /\ plies = 0 /\ game.is_finished) =>
        /\ pc # "failed"
        /\ error = NoError
        /\ pc = "done" =>
            /\ frames = <<initial_board, initial_board, initial_board, initial_board>>
            /\ SavePath(pgn, out_path) \in DOMAIN fs
            /\ fs[SavePath(pgn, out_path)] = pgn

C4_Witness ==
    /\ pc = "done"
    /\ plies = 0
    /\ game.is_finished
    /\ Len(frames) = 4
    /\ SavePath(pgn, out_path) \in DOMAIN fs

Rot180(p) == <<(BOARD_SIZE - SQ_SIZE) - p[1], (BOARD_SIZE - SQ_SIZE) - p[2]>>

\* C5: for each of the 64 squares the origin under one reversal setting is the
\* 180-degree rotation of the origin under the other; a1 is at (0, 420) when
\* not reversed and at (420, 0) when reversed; each setting maps the squares
\* one-to-one onto the 64 grid origins.
C5_ReverseRotates ==
    /\ \A sq \in Squares :
        coordinates_of_square(sq, ~reverse) = Rot180(coordinates_of_square(sq, reverse))
    /\ coordinates_of_square(<<"a", "1">>, reverse) =
            IF reverse THEN <<420, 0>> ELSE <<0, 420>>
    /\ {coordinates_of_square(sq, reverse) : sq \in Squares} = Origins
    /\ Cardinality(Squares) = Cardinality(Origins)

C5_Witness ==
    /\ pc = "loop"
    /\ reverse
    /\ frames[1].cells[<<420, 0>>].piece = INITIAL_STATE[<<"a", "1">>]
    /\ frames[1].cells[<<0, 420>>].piece = INITIAL_STATE[<<"h", "8">>]

\* the tile class _update_board_image pastes on sq
ClassOf(sq, rev) == TileAt(coordinates_of_square(sq, rev), "ws", "bs")

\* C6: under both reversal settings every square gets the dark tile exactly when
\* file index + rank index is even; a1 and h8 agree, a1 and b1 differ, and the
\* painted canvas carries those tiles.
C6_CheckerParity ==
    /\ \A sq \in Squares : \A rev \in BOOLEAN :
        ClassOf(sq, rev) = IF (FileIndex(sq) + RankIndex(sq)) % 2 = 0 THEN "bs" ELSE "ws"
    /\ ClassOf(<<"a", "1">>, reverse) = ClassOf(<<"h", "8">>, reverse)
    /\ ClassOf(<<"a", "1">>, reverse) # ClassOf(<<"b", "1">>, reverse)
    /\ InRender =>
        \A sq \in Squares :
            board_image.cells[coordinates_of_square(sq, reverse)].tile =
                IF (FileIndex(sq) + RankIndex(sq)) % 2 = 0 THEN "bs" ELSE "ws"

C6_Witness ==
    /\ pc = "loop"
    /\ plies >= 1
    /\ reverse
    /\ changed_squares # <<>>
    /\ board_image.cells[coordinates_of_square(<<"a", "1">>, reverse)].tile = "bs"
    /\ board_image.cells[coordinates_of_square(<<"e", "4">>, reverse)].tile = "ws"

\* C7: when game.next() raises, create_gif ends with that same error, no later
\* step of that call advances the game, and a file is written only by the step
\* that follows the source reporting is_finished.
C7_FailureWritesNothing ==
    [][/\ (thrown = NoError /\ thrown' # NoError) =>
            (pc' = "failed" /\ error' = thrown' /\ fs' = fs)
       /\ pc = "failed" => (pc' = "idle" /\ fs' = fs)
       /\ fs' # fs => (pc = "loop" /\ game.is_finished /\ pc' = "done")]_vars

C7_Witness ==
    /\ pc = "failed"
    /\ thrown \in SourceErrors
    /\ error = thrown
    /\ plies >= 1
    /\ DOMAIN fs = {}

MainDone == pc = "idle" /\ main_i = Len(args_path)

StemsOf(paths) == {Stem(paths[i]) : i \in 1..Len(paths)}

InOrder == InRender => (main_i >= 1 /\ pgn = args_path[main_i])

\* C8 as claimed: a batch run over k inputs in which no render fails handles
\* the inputs in order and leaves k distinct output files, each holding the
\* animation of its own input.
C8_OneFilePerInput ==
    /\ InOrder
    /\ MainDone =>
        /\ Cardinality(DOMAIN fs) = Len(args_path)
        /\ \A i \in 1..Len(args_path) : \E f \in DOMAIN fs : fs[f] = args_path[i]

\* C8 amended: the inputs are handled in order and the run leaves one output
\* file per distinct base-name stem, holding the animation of the last input
\* with that stem; so k inputs with pairwise distinct stems leave k files, each
\* holding the animation of its own input.
C8_OneFilePerStem ==
    /\ InOrder
    /\ MainDone =>
        /\ Cardinality(DOMAIN fs) = Cardinality(StemsOf(args_path))
        /\ \A i \in 1..Len(args_path) :
            \E f \in DOMAIN fs :
                /\ f.name = Stem(args_path[i])
                /\ f.dir = args_out
                /\ (\A j \in (i + 1)..Len(args_path) :
                        Stem(args_path[j]) # Stem(args_path[i])) => fs[f] = args_path[i]
        /\ Cardinality(StemsOf(args_path)) = Len(args_path) =>
            /\ Cardinality(DOMAIN fs) = Len(args_path)
            /\ \A i \in 1..Len(args_path) : \E f \in DOMAIN fs : fs[f] = args_path[i]

C8_Witness ==
    /\ MainDone
    /\ Len(args_path) = 2
    /\ Stem(args_path[1]) # Stem(args_path[2])
    /\ Cardinality(DOMAIN fs) = 2

\* C9: during a render the live canvas equals a repaint of all 64 squares from
\* the current snapshot and carries no arrow; the first frame carries no arrow
\* and every other frame carries at most the arrow of its own ply.
C9_CanvasIsFullRepaint ==
    InRender =>
        /\ board_image.cells = FullRepaint(game.state, reverse, ws_color, bs_color).cells
        /\ board_image.arrows = <<>>
        /\ frames[1].arrows = <<>>
        /\ \A i \in 1..Len(frames) : Len(frames[i].arrows) <= 1
        /\ (pc = "loop" /\ plies >= 1) =>
            /\ LastFrame.cells = board_image.cells
            /\ LastFrame.arrows \in
                IF Len(changed_squares) >= 2
                THEN {<<>>, draw_arrow(NewBoard,
                                ArrowArgs(changed_squares, game.state, reverse)).arrows}
                ELSE {<<>>}

C9_Witness ==
    /\ pc = "loop"
    /\ plies = 2
    /\ arrow
    /\ Len(frames[2].arrows) = 1
    /\ Len(frames[3].arrows) = 1
    /\ frames[2].arrows # frames[3].arrows
    /\ board_image.cells # initial_board.cells
    /\ board_image.arrows = <<>>

\* C10: with the arrow overlay on, every ply appends one frame and the render
\* does not fail whatever the number of changed squares: no arrow on the
\* ply's frame when nothing changed, one arrow otherwise.
C10_ArrowNeverFails ==
    (arrow /\ InRender /\ thrown = NoError) =>
        /\ pc # "failed"
        /\ Len(frames) >= plies + 1
        /\ (pc = "loop" /\ plies >= 1) =>
            Len(LastFrame.arrows) = IF changed_squares = <<>> THEN 0 ELSE 1

====
